---- MODULE Spec2Model ----
(***************************************************************************)
(* A model of pymixconsole's ConvolutionalReverb processor                 *)
(* (src/pymixconsole/processors/convreverb.py).                            *)
(*                                                                         *)
(* Array layout.  A numpy array of shape (samples, channels) is a sequence *)
(* of channels, each a sequence of samples: a[c][n].  An array of shape    *)
(* (samples, channels, partitions) is a sequence of partitions, each of    *)
(* them such a two-dimensional array: a[k][c][n].  Indices are 1-based.    *)
(*                                                                         *)
(* Numbers.  Audio samples are integers.  An impulse sample is an integer  *)
(* count of the unit 2^-19 * 10^-5: 2^-19 is the scaling of load() (lines  *)
(* 77-78) and 10^-5 the smallest fade gain of update() (line 93).  Fade    *)
(* gains are rounded down to a multiple of 10^-5.  Mix gains are tenths.   *)
(*                                                                         *)
(* Transforms.  A frequency-domain column of length N is held as the       *)
(* record [td |-> s] of the real length-N signal s it is the DFT of.  The  *)
(* DFT is the ring isomorphism from signals under circular convolution to  *)
(* spectra under the pointwise product, so np.fft.fft builds the record,   *)
(* the product of two spectra is the circular convolution of their         *)
(* signals, their sum is the sum of their signals, and np.fft.ifft         *)
(* followed by np.real takes the signal back out.                          *)
(***************************************************************************)
EXTENDS Integers, Sequences, FiniteSets, TLC

VARIABLES
  fsys,         \* the irs directory: file name -> [sr, data], read by load()
  block_size,   \* self.block_size
  sample_rate,  \* self.sample_rate
  parameters,   \* self.parameters: [bypass, type, decay, dry_mix, wet_mix]
  impulses,     \* self.impulses: preset name -> impulse response
  h,            \* self.h
  H,            \* self.H, the filter bank
  X,            \* self.X, the history of transformed input blocks
  overlap,      \* self.overlap
  status,       \* "ok", or the exception __init__ raised
  err,          \* the exception the last call raised, or "none"
  hpre,         \* self.h as printed at line 99: the shaped impulse
  inStream,     \* the blocks processed since the last rebuild, concatenated
  wetStream,    \* the wet signals (line 53) since the last rebuild, concatenated
  lastOp,       \* the method of the processor that ran last
  discarded,    \* when update() ran last: the blocks the state it replaced had processed
  arg,          \* the argument of process(), when it ran last
  ret,          \* the value process() returned, when it ran last
  pcA,          \* the audio thread's position in process()
  locA,         \* the audio thread's local variables
  pcC,          \* the control thread's position in update()
  locC          \* the control thread's changes made, and self.h_new of update()

vars == <<fsys, block_size, sample_rate, parameters, impulses, h, H, X, overlap,
          status, err, hpre, inStream, wetStream, lastOp, discarded,
          arg, ret, pcA, locA, pcC, locC>>

-----------------------------------------------------------------------------
(* Bounds of the model *)

\* the block size of the processor that processes audio
BlockSize == 2

\* the block sizes 1..MaxBlockSize and the recordings of 0..MaxLength
\* samples that the processor is constructed with and rebuilt on
MaxBlockSize == 3

MaxLength == 6

\* at most MaxBlocks non-bypassed process() calls between two rebuilds
MaxBlocks == 3

\* the engine's sample rate; the fade lasts int(0.020 * SampleRate) samples
SampleRate == 100

\* at most MaxCtlSets parameter changes by the control thread
MaxCtlSets == 1

-----------------------------------------------------------------------------
(* Arithmetic and numpy helpers *)

Min(a, b) == IF a < b THEN a ELSE b

Max(a, b) == IF a > b THEN a ELSE b

\* Python's int() of the rational n / d (d > 0): truncation towards zero
PyInt(n, d) == IF n >= 0 THEN n \div d ELSE -((-n) \div d)

\* the index a Python slice bound i denotes in a sequence of length L
PyIndex(i, L) == IF i < 0 THEN Max(i + L, 0) ELSE Min(i, L)

\* s[a:b] of Python, a and b possibly negative or past the end
PySlice(s, a, b) ==
  LET lo == PyIndex(a, Len(s))
      hi == PyIndex(b, Len(s))
  IN  IF hi > lo THEN SubSeq(s, lo + 1, hi) ELSE <<>>

RECURSIVE IntRoot(_, _, _, _)
\* the largest g in lo..hi with g^n <= t, where lo^n <= t
IntRoot(lo, hi, n, t) ==
  IF lo = hi THEN lo
  ELSE LET mid == (lo + hi + 1) \div 2
       IN  IF mid ^ n <= t THEN IntRoot(mid, hi, n, t)
           ELSE IntRoot(lo, mid - 1, n, t)

Zeros(n) == [i \in 1..n |-> 0]

\* np.zeros((n, channels))
Zeros2(n, channels) == [c \in 1..channels |-> Zeros(n)]

\* np.pad(a, ((0, n), (0, 0)))
PadEnd(a, n) == [c \in 1..Len(a) |-> a[c] \o Zeros(n)]

\* a.shape[0] of a two-dimensional array
Rows(a) == IF Len(a) = 0 THEN 0 ELSE Len(a[1])

\* np.fft.fft(a, axis=0) of a two-dimensional array
fft(a) == [c \in 1..Len(a) |-> [td |-> a[c]]]

\* np.real(np.fft.ifft(A, axis=0)) of a two-dimensional array
ifft(A) == [c \in 1..Len(A) |-> A[c].td]

\* np.fft.fft(a, axis=0) of a three-dimensional array
fft3(a) == [k \in 1..Len(a) |-> fft(a[k])]

RECURSIVE CircSum(_, _, _, _)
\* sum over m in 1..j of a[m] * b[(n - m) mod N + 1]
CircSum(a, b, n, j) ==
  IF j = 0 THEN 0
  ELSE a[j] * b[((n - j) % Len(a)) + 1] + CircSum(a, b, n, j - 1)

\* the signal of the pointwise product of the spectra of a and b
CircConv(a, b) == [n \in 1..Len(a) |-> CircSum(a, b, n, Len(a))]

\* X[:, :, k] * H[:, :, k]
SpecMul(Xk, Hk) == [c \in 1..Len(Xk) |-> [td |-> CircConv(Xk[c].td, Hk[c].td)]]

\* the sum of two spectra
SpecAdd(A, B) ==
  [c \in 1..Len(A) |-> [td |-> [n \in 1..Len(A[c].td) |-> A[c].td[n] + B[c].td[n]]]]

-----------------------------------------------------------------------------
(* Impulse responses on disk (lines 11-17) *)

ir_dir == "irs"

options == <<"sm-room", "md-room", "lg-room", "hall", "plate">>

src ==
  [p \in {options[i] : i \in 1..Len(options)} |->
     CASE p = "sm-room" -> "small_room.wav"
       [] p = "md-room" -> "medium_room.wav"
       [] p = "lg-room" -> "large_room.wav"
       [] p = "hall"    -> "hall.wav"
       [] p = "plate"   -> "plate.wav"]

Presets == DOMAIN src

Files == {src[p] : p \in Presets}

\* the lengths, in samples, of the small room's recording that audio is
\* processed with
SmallRoomLengths == {0, 3, 5}

\* the length, in samples, of each other recording
AssetLength(f) ==
  CASE f = "medium_room.wav" -> 4
    [] f = "large_room.wav"  -> 6
    [] f = "hall.wav"        -> 2
    [] f = "plate.wav"       -> 1

\* the 16 bit stereo samples of a recording of length L
AssetData(L) == <<[i \in 1..L |-> i + L], [i \in 1..L |-> i - L - 1]>>

\* the directory in which the small room has length L0 and the files of
\* `bad` were recorded at another rate than the engine's
Directory(bad, L0) ==
  [f \in Files |->
     [sr   |-> IF f \in bad THEN 2 * SampleRate ELSE SampleRate,
      data |-> AssetData(IF f = "small_room.wav" THEN L0 ELSE AssetLength(f))]]

-----------------------------------------------------------------------------
(* ConvolutionalReverb.__init__ (lines 20-35): the parameter list *)

\* presets a caller may select, among the options of line 27
TypeValues == {"sm-room", "hall"}

\* decay values a caller may set, as <<numerator, denominator>>; the list
\* declares the range [0, 1] (line 28)
DecayValues == {<<-3, 4>>, <<0, 1>>, <<1, 2>>, <<1, 1>>, <<3, 2>>}

\* mix gains a caller may set, in tenths
DryMixValues == {0, 8}

WetMixValues == {1, 10}

\* the values the parameters are created with (lines 26-30)
DefaultParameters ==
  [bypass |-> FALSE, type |-> "sm-room", decay |-> <<1, 1>>,
   dry_mix |-> 8, wet_mix |-> 1]

\* the processor= argument of each parameter (lines 26-30): TRUE for self
processor ==
  [bypass |-> FALSE, type |-> TRUE, decay |-> TRUE,
   dry_mix |-> TRUE, wet_mix |-> TRUE]

-----------------------------------------------------------------------------
(* ConvolutionalReverb.load (lines 63-79) *)

\* 10^5 units of 10^-5 make 1
GainOne == 10^5

\* the file read for the preset `reverb` (line 68)
load_filename(reverb, typevalue) == src[typevalue]

\* lines 77-78: 16 bit integers to floats, scaled by 2^-16 * 0.125
to_double(data) ==
  [c \in 1..Len(data) |-> [i \in 1..Len(data[c]) |-> data[c][i] * GainOne]]

RECURSIVE load_from(_, _, _, _, _)
\* the loop of line 66 from its i-th iteration on, `imp` loaded so far
load_from(i, imp, dir, typevalue, sr) ==
  IF i > Len(options) THEN [raised |-> FALSE, impulses |-> imp]
  ELSE LET reverb == options[i]
           file   == dir[load_filename(reverb, typevalue)]
       IN  IF file.sr # sr
           THEN [raised |-> TRUE, impulses |-> imp]
           ELSE load_from(i + 1, (reverb :> to_double(file.data)) @@ imp,
                          dir, typevalue, sr)

load(dir, typevalue, sr) == load_from(1, <<>>, dir, typevalue, sr)

-----------------------------------------------------------------------------
(* ConvolutionalReverb.update (lines 81-125) *)

\* int(0.020 * self.sample_rate) of line 87
fade_samples(sr) == PyInt(20 * sr, 1000)

\* line 86
fstart(decay, L) == PyInt(decay[1] * L, decay[2])

\* line 87
fstop(decay, L, sr) == Min(L, fstart(decay, L) + fade_samples(sr))

\* line 88
flen(decay, L, sr) == fstop(decay, L, sr) - fstart(decay, L)

\* lines 92-93: 0.1 ^ ((1 - i/n) * 5) = 10^(5 i / n) * 10^-5, in units of
\* 10^-5 rounded down (n <= 2 keeps the powers within 32 bits)
fade_gain(i, n) == IntRoot(1, 10 ^ ((5 * i) \div n + 1), n, 10 ^ (5 * i))

\* lines 91-97 on the copy hh of the impulse: the fade and the truncation,
\* or the ValueError of line 96 when the gains do not broadcast to the slice
fade_out(hh, decay, sr) ==
  LET L  == Rows(hh)
      a  == fstart(decay, L)
      b  == fstop(decay, L, sr)
      n  == flen(decay, L, sr)
      lo == PyIndex(a, L)
      hi == PyIndex(b, L)
      m  == Max(hi - lo, 0)
  IN  IF n <= 0 THEN [raised |-> FALSE, h |-> hh]
      ELSE IF m # n /\ n # 1 THEN [raised |-> TRUE, h |-> hh]
      ELSE LET fade  == [k \in 1..n |-> fade_gain(k - 1, n)]
               faded ==
                 [c \in 1..Len(hh) |->
                    [i \in 1..L |->
                       IF lo < i /\ i <= hi
                       THEN (hh[c][i] * fade[IF n = 1 THEN 1 ELSE i - lo])
                              \div GainOne
                       ELSE hh[c][i]]]
           IN  [raised |-> FALSE,
                h |-> [c \in 1..Len(hh) |-> PySlice(faded[c], 0, b)]]

\* pad_amount adding nothing to a length the block size divides
pad_amount_exact(L, B) == (B - (L % B)) % B

\* line 102
pad_amount(L, B) == B - (L % B)

\* line 103
pad_impulse(hh, B) == PadEnd(hh, pad_amount(Rows(hh), B))

\* line 108
nfilters(hh, B) == Rows(hh) \div B

\* line 116: the n-th block of the impulse (n from 0), zero padded to 2 B
chop_block(hh, n, B) ==
  PadEnd([c \in 1..Len(hh) |-> SubSeq(hh[c], n * B + 1, n * B + B)], B)

\* lines 108-116: self.h_new
chop(hh, B) == [k \in 1..nfilters(hh, B) |-> chop_block(hh, k - 1, B)]

\* X_init starting the history from the chopped impulse instead of zeros
X_init_copy(hn) == fft3(hn)

\* lines 122 and 124: the transform of zeros shaped like the chopped impulse
X_init(hn) == fft3([k \in 1..Len(hn) |-> Zeros2(Rows(hn[k]), Len(hn[k]))])

\* line 123
ovrlp_init(hn, B) == Zeros2(B, IF Len(hn) = 0 THEN 0 ELSE Len(hn[1]))

\* update() as one call: what it leaves in self.h, self.H, self.X and
\* self.overlap, or the exception it stops at
update_run(imp, params, B, sr) ==
  LET h83 == imp[params.type]
      f   == fade_out(h83, params.decay, sr)
      hn  == chop(pad_impulse(f.h, B), B)
  IN  IF f.raised
      THEN [raised |-> TRUE, h |-> h83]
      ELSE [raised |-> FALSE, hpre |-> f.h, h |-> hn, H |-> fft3(hn),
            X |-> X_init(hn), overlap |-> ovrlp_init(hn, B)]

-----------------------------------------------------------------------------
(* ConvolutionalReverb.process (lines 37-61) *)

\* the blocks a caller passes: block_size samples, as a one-dimensional mono
\* array or as a stereo array
InputBlocks(B) ==
  { [ndim |-> 1, cols |-> <<[i \in 1..B |-> IF i = 1 THEN 1 ELSE 0]>>],
    [ndim |-> 2, cols |-> <<[i \in 1..B |-> IF i = B THEN 2 ELSE 0],
                            [i \in 1..B |-> -1]>>] }

\* lines 42-46: a mono input gets a channel axis and is copied to both channels
to_stereo(x) == IF Len(x.cols) = 1 THEN <<x.cols[1], x.cols[1]>> ELSE x.cols

\* passthrough returning the input after the channel handling of lines 42-46
passthrough_stereo(x) == [ndim |-> 2, cols |-> to_stereo(x)]

\* lines 38-39: with bypass on the input is returned as it came
passthrough(x) == x

\* line 48
pad_frame(xs, B) == PadEnd(xs, B)

\* line 49: np.roll(self.X, 1, axis=2)
roll(XX) ==
  IF Len(XX) = 0 THEN XX ELSE <<XX[Len(XX)]>> \o SubSeq(XX, 1, Len(XX) - 1)

\* line 50: self.X[:, :, 0] = np.fft.fft(x, axis=0)
store_frame(XX, xp) == [XX EXCEPT ![1] = fft(xp)]

\* line 51: whether self.X * self.H broadcasts along the partition axis
broadcasts(XX, HH) == Len(XX) = Len(HH) \/ Len(XX) = 1 \/ Len(HH) = 1

\* line 51: self.X * self.H, a size-1 partition axis stretched to the other's
multiply(XX, HH) ==
  [k \in 1..Max(Len(XX), Len(HH)) |->
     SpecMul(XX[IF Len(XX) = 1 THEN 1 ELSE k], HH[IF Len(HH) = 1 THEN 1 ELSE k])]

RECURSIVE sum_axis2(_, _)
\* line 51: np.sum(., axis=2) of the first k partitions
sum_axis2(P, k) ==
  IF k = 1 THEN P[1] ELSE SpecAdd(sum_axis2(P, k - 1), P[k])

\* lines 51-52: y
convolve(XX, HH) == ifft(sum_axis2(multiply(XX, HH), Max(Len(XX), Len(HH))))

\* two arrays of the same shape added
add2(a, b) == [c \in 1..Len(a) |-> [n \in 1..Len(a[c]) |-> a[c][n] + b[c][n]]]

\* a[:n] and a[n:] along the sample axis
head_rows(a, n) == [c \in 1..Len(a) |-> SubSeq(a[c], 1, n)]

tail_rows(a, n) == [c \in 1..Len(a) |-> SubSeq(a[c], n + 1, Len(a[c]))]

\* wet_signal without the overlap of the previous frame
wet_signal_no_overlap(y, ov, B) == head_rows(y, B)

\* line 53
wet_signal(y, ov, B) == add2(head_rows(y, B), ov)

\* line 54
dry_signal(xp, B) == head_rows(xp, B)

\* next_overlap keeping the whole of y
next_overlap_whole(y, B) == y

\* line 55
next_overlap(y, B) == tail_rows(y, B)

\* lines 57-58: a signal times a gain
scale(a, g) == [c \in 1..Len(a) |-> [n \in 1..Len(a[c]) |-> a[c][n] * g]]

\* lines 57-59: the returned mix.  The wet addend counts units of
\* 2^-19 * 10^-6 and the dry addend tenths of an input unit, so the sum of
\* line 59 is kept as its two addends.
mix(wet, dry, params) ==
  [ndim |-> 2,
   wet  |-> scale(wet, params.wet_mix),
   dry  |-> scale(dry, params.dry_mix)]

\* process(x) with bypass off, as one call
process_run(x, params, B, XX, HH, ov) ==
  LET xp  == pad_frame(to_stereo(x), B)
      X50 == store_frame(roll(XX), xp)
      y   == convolve(X50, HH)
      wet == wet_signal(y, ov, B)
  IN  [X |-> X50, overlap |-> next_overlap(y, B), wet |-> wet,
       out |-> mix(wet, dry_signal(xp, B), params)]

\* two signals concatenated along the sample axis
concat(a, b) == [c \in 1..Len(a) |-> a[c] \o b[c]]

NoSignal == <<<<>>, <<>>>>

\* the number of blocks processed since the last rebuild
NumBlocks == Rows(inStream) \div block_size

-----------------------------------------------------------------------------
(* The processor driven from one thread *)

NoCall == [ndim |-> 0, cols |-> <<>>]

\* the audio thread's locals: the calls made, and x, y and wet of process()
NoLocals == [calls |-> 0, x |-> NoSignal, y |-> NoSignal, wet |-> NoSignal]

Idle == <<pcA, locA, pcC, locC>>

\* __init__ (lines 20-35) with the default parameter list and the block
\* size B, on the directory dir: load(), then update(None)
Construct(dir, B) ==
    LET l == load(dir, DefaultParameters.type, SampleRate)
        u == update_run(l.impulses, DefaultParameters, B, SampleRate)
    IN  /\ fsys = dir
        /\ block_size = B
        /\ sample_rate = SampleRate
        /\ parameters = DefaultParameters
        /\ impulses = l.impulses
        /\ status = IF l.raised THEN "RuntimeError"
                    ELSE IF u.raised THEN "ValueError" ELSE "ok"
        /\ h = IF l.raised THEN <<>> ELSE u.h
        /\ H = IF l.raised \/ u.raised THEN <<>> ELSE u.H
        /\ X = IF l.raised \/ u.raised THEN <<>> ELSE u.X
        /\ overlap = IF l.raised \/ u.raised THEN NoSignal ELSE u.overlap
        /\ hpre = IF l.raised \/ u.raised THEN NoSignal ELSE u.hpre
        /\ err = "none"
        /\ inStream = NoSignal
        /\ wetStream = NoSignal
        /\ lastOp = "__init__"
        /\ discarded = 0
        /\ arg = NoCall
        /\ ret = NoCall
        /\ pcA = "idle"
        /\ locA = NoLocals
        /\ pcC = "idle"
        /\ locC = [sets |-> 0, h_new |-> <<>>]

\* update(parameter_name) run to its end on the new parameter values
update(params) ==
  LET u == update_run(impulses, params, block_size, sample_rate)
  IN  /\ h' = u.h
      /\ lastOp' = "update"
      /\ discarded' = IF u.raised THEN 0 ELSE NumBlocks
      /\ arg' = NoCall
      /\ ret' = NoCall
      /\ IF u.raised
         THEN /\ err' = "ValueError"
              /\ UNCHANGED <<H, X, overlap, hpre, inStream, wetStream>>
         ELSE /\ err' = "none"
              /\ H' = u.H
              /\ X' = u.X
              /\ overlap' = u.overlap
              /\ hpre' = u.hpre
              /\ inStream' = NoSignal
              /\ wetStream' = NoSignal

\* Parameter.value = v on the parameter `name`: the value is stored and the
\* parameter's processor, when it has one, is told through update(name)
SetValue(name, v) ==
  /\ status = "ok"
  /\ parameters' = [parameters EXCEPT ![name] = v]
  /\ IF processor[name]
     THEN update(parameters')
     ELSE UNCHANGED <<h, H, X, overlap, hpre, inStream, wetStream, err,
                      lastOp, discarded, arg, ret>>
  /\ UNCHANGED <<fsys, block_size, sample_rate, impulses, status>>
  /\ UNCHANGED Idle

\* the processor constructed where every asset has the engine's rate
Init == \E L0 \in SmallRoomLengths : Construct(Directory({}, L0), BlockSize)

SetBypass == \E v \in BOOLEAN : SetValue("bypass", v)

SetType == \E v \in TypeValues : SetValue("type", v)

SetDecay == \E v \in DecayValues : SetValue("decay", v)

SetDryMix == \E v \in DryMixValues : SetValue("dry_mix", v)

SetWetMix == \E v \in WetMixValues : SetValue("wet_mix", v)

\* process(x), run to its end
Process ==
  \E x \in InputBlocks(block_size) :
    /\ status = "ok"
    /\ parameters.bypass \/ NumBlocks < MaxBlocks
    /\ lastOp' = "process"
    /\ discarded' = 0
    /\ arg' = x
    /\ err' = "none"
    /\ IF parameters.bypass
       THEN /\ ret' = passthrough(x)
            /\ UNCHANGED <<X, overlap, inStream, wetStream>>
       ELSE LET r == process_run(x, parameters, block_size, X, H, overlap)
            IN  /\ X' = r.X
                /\ overlap' = r.overlap
                /\ ret' = r.out
                /\ inStream' = concat(inStream, to_stereo(x))
                /\ wetStream' = concat(wetStream, r.wet)
    /\ UNCHANGED <<fsys, block_size, sample_rate, parameters, impulses, h, H,
                   status, hpre>>
    /\ UNCHANGED Idle

Next ==
  \/ SetBypass
  \/ SetType
  \/ SetDecay
  \/ SetDryMix
  \/ SetWetMix
  \/ Process

Spec == Init /\ [][Next]_vars

-----------------------------------------------------------------------------
(* The processor constructed on any directory with any block size, and    *)
(* rebuilt for a preset or a decay                                         *)

InitLoad ==
  \E bad \in SUBSET Files, L0 \in 0..MaxLength, B \in 1..MaxBlockSize :
    Construct(Directory(bad, L0), B)

NextLoad ==
  \/ SetType
  \/ SetDecay

SpecLoad == InitLoad /\ [][NextLoad]_vars

-----------------------------------------------------------------------------
(* process() on the audio thread while update() runs on a control thread.  *)
(* The threads interleave between statements: a step is one statement, or  *)
(* a run of statements that touch no attribute the other thread touches.   *)

Engine == <<fsys, block_size, sample_rate, impulses, status>>

Streams == <<inStream, wetStream, discarded, hpre>>

\* lines 38-48: process(x) is called; with bypass on it returns at once
AudioCall ==
  \E x \in InputBlocks(block_size) :
    /\ status = "ok"
    /\ pcA = "idle"
    /\ locA.calls < MaxBlocks
    /\ arg' = x
    /\ IF parameters.bypass
       THEN /\ ret' = passthrough(x)
            /\ lastOp' = "process"
            /\ pcA' = "idle"
            /\ locA' = [locA EXCEPT !.calls = @ + 1]
       ELSE /\ pcA' = "l49"
            /\ locA' = [locA EXCEPT !.calls = @ + 1,
                                    !.x = pad_frame(to_stereo(x), block_size)]
            /\ UNCHANGED <<ret, lastOp>>
    /\ UNCHANGED <<parameters, h, H, X, overlap, err, pcC, locC>>
    /\ UNCHANGED <<Engine, Streams>>

\* line 49
Audio49 ==
  /\ pcA = "l49"
  /\ X' = roll(X)
  /\ pcA' = "l50"
  /\ UNCHANGED <<parameters, h, H, overlap, err, lastOp, arg, ret, locA, pcC, locC>>
  /\ UNCHANGED <<Engine, Streams>>

\* line 50
Audio50 ==
  /\ pcA = "l50"
  /\ X' = store_frame(X, locA.x)
  /\ pcA' = "l51"
  /\ UNCHANGED <<parameters, h, H, overlap, err, lastOp, arg, ret, locA, pcC, locC>>
  /\ UNCHANGED <<Engine, Streams>>

\* lines 51-52: self.X and self.H are read and multiplied; numpy raises
\* ValueError when their partition axes do not broadcast
Audio51 ==
  /\ pcA = "l51"
  /\ IF broadcasts(X, H)
     THEN /\ locA' = [locA EXCEPT !.y = convolve(X, H)]
          /\ pcA' = "l53"
          /\ UNCHANGED err
     ELSE /\ err' = "ValueError"
          /\ pcA' = "idle"
          /\ UNCHANGED locA
  /\ UNCHANGED <<parameters, h, H, X, overlap, lastOp, arg, ret, pcC, locC>>
  /\ UNCHANGED <<Engine, Streams>>

\* lines 53-54: self.overlap is read
Audio53 ==
  /\ pcA = "l53"
  /\ locA' = [locA EXCEPT !.wet = wet_signal(locA.y, overlap, block_size)]
  /\ pcA' = "l55"
  /\ UNCHANGED <<parameters, h, H, X, overlap, err, lastOp, arg, ret, pcC, locC>>
  /\ UNCHANGED <<Engine, Streams>>

\* line 55
Audio55 ==
  /\ pcA = "l55"
  /\ overlap' = next_overlap(locA.y, block_size)
  /\ pcA' = "l57"
  /\ UNCHANGED <<parameters, h, H, X, err, lastOp, arg, ret, locA, pcC, locC>>
  /\ UNCHANGED <<Engine, Streams>>

\* lines 57-61: the mix gains are read and the mix is returned
Audio57 ==
  /\ pcA = "l57"
  /\ ret' = mix(locA.wet, dry_signal(locA.x, block_size), parameters)
  /\ lastOp' = "process"
  /\ pcA' = "idle"
  /\ UNCHANGED <<parameters, h, H, X, overlap, err, arg, locA, pcC, locC>>
  /\ UNCHANGED <<Engine, Streams>>

\* the control thread changes the preset or the decay: the value is stored
\* and update() is entered
ControlSet ==
  \E name \in {"type", "decay"} :
    \E v \in IF name = "type" THEN TypeValues ELSE DecayValues :
      /\ status = "ok"
      /\ pcC = "idle"
      /\ locC.sets < MaxCtlSets
      /\ parameters' = [parameters EXCEPT ![name] = v]
      /\ locC' = [locC EXCEPT !.sets = @ + 1]
      /\ pcC' = "l83"
      /\ UNCHANGED <<h, H, X, overlap, err, lastOp, arg, ret, pcA, locA>>
      /\ UNCHANGED <<Engine, Streams>>

\* line 83
Control83 ==
  /\ pcC = "l83"
  /\ h' = impulses[parameters.type]
  /\ pcC' = "l86"
  /\ UNCHANGED <<parameters, H, X, overlap, err, lastOp, arg, ret, pcA, locA, locC>>
  /\ UNCHANGED <<Engine, Streams>>

\* lines 86-99: the fade, or the ValueError of line 96
Control86 ==
  /\ pcC = "l86"
  /\ LET f == fade_out(h, parameters.decay, sample_rate)
     IN  IF f.raised
         THEN /\ err' = "ValueError"
              /\ pcC' = "idle"
              /\ UNCHANGED <<h, hpre>>
         ELSE /\ h' = f.h
              /\ hpre' = f.h
              /\ pcC' = "l102"
              /\ UNCHANGED err
  /\ UNCHANGED <<parameters, H, X, overlap, lastOp, arg, ret, pcA, locA, locC>>
  /\ UNCHANGED <<Engine, inStream, wetStream, discarded>>

\* lines 102-105
Control102 ==
  /\ pcC = "l102"
  /\ h' = pad_impulse(h, block_size)
  /\ pcC' = "l108"
  /\ UNCHANGED <<parameters, H, X, overlap, err, lastOp, arg, ret, pcA, locA, locC>>
  /\ UNCHANGED <<Engine, Streams>>

\* lines 108-118: self.h_new, which only update() reads
Control108 ==
  /\ pcC = "l108"
  /\ locC' = [locC EXCEPT !.h_new = chop(h, block_size)]
  /\ pcC' = "l120"
  /\ UNCHANGED <<parameters, h, H, X, overlap, err, lastOp, arg, ret, pcA, locA>>
  /\ UNCHANGED <<Engine, Streams>>

\* line 120
Control120 ==
  /\ pcC = "l120"
  /\ h' = locC.h_new
  /\ pcC' = "l121"
  /\ UNCHANGED <<parameters, H, X, overlap, err, lastOp, arg, ret, pcA, locA, locC>>
  /\ UNCHANGED <<Engine, Streams>>

\* line 121
Control121 ==
  /\ pcC = "l121"
  /\ H' = fft3(h)
  /\ pcC' = "l122"
  /\ UNCHANGED <<parameters, h, X, overlap, err, lastOp, arg, ret, pcA, locA, locC>>
  /\ UNCHANGED <<Engine, Streams>>

\* lines 122-124
Control122 ==
  /\ pcC = "l122"
  /\ X' = X_init(h)
  /\ pcC' = "l125"
  /\ UNCHANGED <<parameters, h, H, overlap, err, lastOp, arg, ret, pcA, locA, locC>>
  /\ UNCHANGED <<Engine, Streams>>

\* line 125, and update() returns
Control125 ==
  /\ pcC = "l125"
  /\ overlap' = ovrlp_init(h, block_size)
  /\ lastOp' = "update"
  /\ pcC' = "idle"
  /\ UNCHANGED <<parameters, h, H, X, err, arg, ret, pcA, locA, locC>>
  /\ UNCHANGED <<Engine, Streams>>

NextConc ==
  \/ AudioCall
  \/ Audio49
  \/ Audio50
  \/ Audio51
  \/ Audio53
  \/ Audio55
  \/ Audio57
  \/ ControlSet
  \/ Control83
  \/ Control86
  \/ Control102
  \/ Control108
  \/ Control120
  \/ Control121
  \/ Control122
  \/ Control125

SpecConc == Init /\ [][NextConc]_vars

-----------------------------------------------------------------------------
(* Properties of the processor driven from one thread *)

\* sum over j in 1..m of a[j] * b[i - j + 1], b read as zero past its end
RECURSIVE LinearSum(_, _, _, _)
LinearSum(a, b, i, m) ==
  IF m = 0 THEN 0
  ELSE (IF i - m + 1 <= Len(b) THEN a[m] * b[i - m + 1] ELSE 0)
       + LinearSum(a, b, i, m - 1)

\* sample i of the linear convolution of the stream a with the impulse b
LinearConv(a, b, i) == LinearSum(a, b, i, i)

IsZero(s) == \A n \in 1..Len(s) : s[n] = 0

\* C1: the history has as many partitions as the filter bank, each shaped
\* like the filter bank's, and the overlap buffer holds block_size samples
\* for each of the two channels, in every state construction, update() and
\* process() lead to.
C1_SizesAgree ==
  status = "ok" =>
    /\ Len(X) = Len(H)
    /\ \A k \in 1..Len(X) :
         /\ Len(X[k]) = Len(H[k])
         /\ \A c \in 1..Len(X[k]) : Len(X[k][c].td) = Len(H[k][c].td)
    /\ Len(overlap) = 2
    /\ \A c \in 1..Len(overlap) : Len(overlap[c]) = block_size

\* C1 witness: blocks were processed through a rebuilt, several partition
\* filter bank
C1_Witness ==
  /\ status = "ok"
  /\ lastOp = "process"
  /\ parameters.type = "hall"
  /\ NumBlocks = 2
  /\ Len(H) >= 3
  /\ ~IsZero(overlap[1])

\* C3: once update() has rebuilt the state, every history entry and the
\* overlap buffer are zero and sized to the new filter bank; and the wet
\* block of the first process() after a rebuild is the head of the linear
\* convolution of that block with the first partition of the filter bank.
C3_RebuildResets ==
  /\ (status = "ok" /\ lastOp \in {"__init__", "update"} /\ err = "none") =>
       /\ Len(X) = Len(H)
       /\ \A k \in 1..Len(X) : \A c \in 1..2 :
            /\ Len(X[k][c].td) = 2 * block_size
            /\ IsZero(X[k][c].td)
       /\ overlap = Zeros2(block_size, 2)
  /\ (status = "ok" /\ NumBlocks = 1) =>
       \A c \in 1..2 : \A i \in 1..block_size :
         wetStream[c][i] =
           LinearConv(inStream[c], SubSeq(H[1][c].td, 1, block_size), i)

\* C3 witness: a rebuild to another preset has discarded a state that had
\* processed blocks
C3_Witness ==
  /\ status = "ok"
  /\ lastOp = "update"
  /\ err = "none"
  /\ discarded >= 2
  /\ parameters.type = "hall"

\* C4: a step that changes dry_mix, wet_mix or bypass leaves the filter
\* bank, the history and the overlap buffer as they were.
C4_MixKeepsState ==
  [][(\/ parameters'.dry_mix # parameters.dry_mix
      \/ parameters'.wet_mix # parameters.wet_mix
      \/ parameters'.bypass # parameters.bypass)
     => UNCHANGED <<H, X, overlap>>]_vars

\* the impulse update() shapes for the parameters p, from the asset of p.type
OwnShaped(p) ==
  fade_out(to_double(fsys[src[p.type]].data), p.decay, sample_rate)

\* C5: each preset's cached impulse is its own asset's content, and the
\* filter bank rebuilt for the selected preset has the partition count of that
\* preset's own shaped impulse.
C5_OwnAsset ==
  status = "ok" =>
    /\ \A p \in Presets : impulses[p] = to_double(fsys[src[p]].data)
    /\ (lastOp \in {"__init__", "update"} /\ err = "none") =>
         Len(H) = Rows(OwnShaped(parameters).h) \div block_size + 1

\* C6: construction raises whenever some preset's asset has another sample
\* rate than the engine, and a constructed engine holds no such impulse.
C6_RateChecked ==
  /\ (\E p \in Presets : fsys[src[p]].sr # sample_rate) => status = "RuntimeError"
  /\ status = "ok" => \A p \in DOMAIN impulses : fsys[src[p]].sr = sample_rate

\* C7: for the shaped impulse of length L and the block size B, the filter
\* bank has L \div B + 1 partitions, which is the padded length
\* L + (B - L % B) over B; partition k holds, before the transform, samples
\* (k-1)B+1..kB of the impulse (zero past L) followed by B zeros; when B
\* divides L the last partition is zero.
C7_Partitions ==
  status = "ok" =>
    LET L == Rows(hpre)
        B == block_size
        n == Len(H)
    IN  /\ n = L \div B + 1
        /\ n * B = L + (B - (L % B))
        /\ \A k \in 1..n : \A c \in 1..2 :
             LET blk == ifft(H[k])[c]
             IN  /\ Len(blk) = 2 * B
                 /\ \A i \in 1..B :
                      blk[i] = IF (k - 1) * B + i <= L
                               THEN hpre[c][(k - 1) * B + i] ELSE 0
                 /\ \A i \in (B + 1)..(2 * B) : blk[i] = 0
        /\ L % B = 0 => \A c \in 1..2 : IsZero(ifft(H[n])[c])

\* C7 witness: a rebuild for another decay has shaped a non-empty impulse
\* whose length the block size divides
C7_Witness ==
  /\ status = "ok"
  /\ lastOp = "update"
  /\ err = "none"
  /\ parameters.decay = <<1, 2>>
  /\ block_size >= 2
  /\ Rows(hpre) > 0
  /\ Rows(hpre) % block_size = 0
  /\ Len(H) = Rows(hpre) \div block_size + 1
  /\ ~IsZero(ifft(H[Len(H) - 1])[1])

\* C8: the wet samples produced since the last rebuild are the linear
\* convolution of the input samples processed since then with the shaped
\* impulse: wet sample i is the sum over j <= i of input[j] * impulse[i-j].
C8_LinearConvolution ==
  status = "ok" =>
    \A c \in 1..2 :
      /\ Len(wetStream[c]) = Len(inStream[c])
      /\ \A i \in 1..Len(wetStream[c]) :
           wetStream[c][i] = LinearConv(inStream[c], hpre[c], i)

\* C8 witness: three blocks through a three partition filter bank, the last
\* wet block carrying the tail of the first input block
C8_Witness ==
  /\ status = "ok"
  /\ NumBlocks = 3
  /\ Len(H) = 3
  /\ Rows(hpre) > 2 * block_size
  /\ inStream[1][1] # 0
  /\ wetStream[1][2 * block_size + 1] # 0

\* a decay value clamped to [0, 1]
Clamped(decay) ==
  IF decay[1] < 0 THEN <<0, 1>>
  ELSE IF decay[1] > decay[2] THEN <<1, 1>> ELSE decay

\* C9: update() treats a decay outside [0, 1] as the nearest bound: it ends
\* with the shaped impulse and filter bank of the clamped decay, and the fade
\* window lies within the impulse.
C9_DecayClamped ==
  (status = "ok" /\ lastOp = "update") =>
    LET L == Rows(impulses[parameters.type])
        u == update_run(impulses, [parameters EXCEPT !.decay = Clamped(@)],
                        block_size, sample_rate)
    IN  /\ err = "none"
        /\ hpre = u.hpre
        /\ H = u.H
        /\ 0 <= fstart(parameters.decay, L)
        /\ fstart(parameters.decay, L) <= fstop(parameters.decay, L, sample_rate)
        /\ fstop(parameters.decay, L, sample_rate) <= L

\* C10: with bypass on, a process() call returns its argument and leaves the
\* filter bank, the history and the overlap buffer as they were.
C10_BypassPassthrough ==
  [][(parameters.bypass /\ parameters' = parameters /\ lastOp' = "process")
     => (ret' = arg' /\ UNCHANGED <<H, X, overlap>>)]_vars

\* C10 witness: a mono block passed through a bypassed processor whose
\* history holds processed blocks
C10_Witness ==
  /\ status = "ok"
  /\ parameters.bypass
  /\ lastOp = "process"
  /\ NumBlocks >= 1
  /\ arg.ndim = 1
  /\ ret = arg
  /\ parameters.wet_mix = 10

-----------------------------------------------------------------------------
(* Properties of process() running beside update() *)

\* C2: whenever process() is about to multiply self.X by self.H (line 51),
\* the two have the same number of partitions.
C2_AtomicSwap == pcA = "l51" => Len(X) = Len(H)

====
